---------------------------- MODULE Spec2Model ----------------------------
(***************************************************************************)
(* A model of the `latin` convenience library (src/file.rs and             *)
(* src/directory.rs): one-call wrappers around the standard filesystem     *)
(* primitives.  The state is the filesystem the calls act on, the line     *)
(* iterator a caller holds, the number of open OS handles and the outcome  *)
(* of the last call.  Every library function is one action that performs   *)
(* the whole call.                                                         *)
(***************************************************************************)
EXTENDS Integers, Sequences, FiniteSets, TLC

VARIABLES
    build,          \* the build the library was compiled as: target and std
    fs,             \* the filesystem: path -> node
    open_handles,   \* number of OS handles the process holds open
    it,             \* the Lines<BufReader<File>> a caller holds, if any
    last,           \* the last call and what it returned
    written,        \* history: the last successful write, while intact
    appended,       \* history: the current run of successful appends
    written_lines,  \* history: the last successful write_lines, while intact
    yielded         \* history: the elements the live iterator has yielded

vars == <<build, fs, open_handles, it, last, written, appended, written_lines, yielded>>

-----------------------------------------------------------------------------
(* Bounds of the model. *)

\* Longest content a call writes or extends a file to, in bytes.
MaxLen == 2
\* Longest content of a file that exists before the first call.
MaxText == 3
\* Longest remembered run of consecutive appends.
MaxRun == 2
\* Most reads that fail under one line iterator for a reason outside the
\* program (a failing disk).
MaxFaults == 1

-----------------------------------------------------------------------------
(* Bytes and UTF-8. *)

LF == 10
CR == 13
\* The bytes contents are drawn from: "\n", "\r", "a" and the byte 0xFF,
\* which occurs in no well-formed UTF-8 sequence.
Bytes == {LF, CR, 97, 255}

RECURSIVE SeqsUpTo(_, _)
SeqsUpTo(S, n) ==
    IF n = 0 THEN {<<>>}
    ELSE LET shorter == SeqsUpTo(S, n - 1)
         IN  shorter \cup {Append(s, x) : s \in {t \in shorter : Len(t) = n - 1}, x \in S}

\* The lines write_lines and append_line are called with.
Contents == SeqsUpTo(Bytes, MaxLen)
\* The byte strings write and append are called with: no call that handles a
\* file as a whole tells one byte from another, except for the decoding.
Blobs == SeqsUpTo({97, 255}, MaxLen)
\* The contents a file read line by line starts with.
Texts == SeqsUpTo(Bytes, MaxText)

PrefixOf(s, n) == SubSeq(s, 1, n)
DropFirst(s, n) == SubSeq(s, n + 1, Len(s))

InRange(x, lo, hi) == lo <= x /\ x <= hi
At(bs, i, lo, hi) == i <= Len(bs) /\ InRange(bs[i], lo, hi)

\* Width of the well-formed UTF-8 sequence that starts at bs[i]; 0 if none does.
Utf8Width(bs, i) ==
    LET b == bs[i]
        c2 == At(bs, i + 2, 128, 191)
        c3 == At(bs, i + 3, 128, 191)
    IN  IF b < 128 THEN 1
        ELSE IF InRange(b, 194, 223) /\ At(bs, i + 1, 128, 191) THEN 2
        ELSE IF b = 224 /\ At(bs, i + 1, 160, 191) /\ c2 THEN 3
        ELSE IF (InRange(b, 225, 236) \/ InRange(b, 238, 239))
                /\ At(bs, i + 1, 128, 191) /\ c2 THEN 3
        ELSE IF b = 237 /\ At(bs, i + 1, 128, 159) /\ c2 THEN 3
        ELSE IF b = 240 /\ At(bs, i + 1, 144, 191) /\ c2 /\ c3 THEN 4
        ELSE IF InRange(b, 241, 243) /\ At(bs, i + 1, 128, 191) /\ c2 /\ c3 THEN 4
        ELSE IF b = 244 /\ At(bs, i + 1, 128, 143) /\ c2 /\ c3 THEN 4
        ELSE 0

\* Length of the maximal ill-formed subpart at bs[i] (Utf8Width(bs, i) = 0).
InvalidWidth(bs, i) ==
    LET b == bs[i]
        second == IF b = 224 THEN At(bs, i + 1, 160, 191)
                  ELSE IF b = 237 THEN At(bs, i + 1, 128, 159)
                  ELSE IF b = 240 THEN At(bs, i + 1, 144, 191)
                  ELSE IF b = 244 THEN At(bs, i + 1, 128, 143)
                  ELSE IF InRange(b, 225, 243) THEN At(bs, i + 1, 128, 191)
                  ELSE FALSE
    IN  IF ~second THEN 1
        ELSE IF b >= 240 /\ At(bs, i + 2, 128, 191) THEN 3
        ELSE 2

RECURSIVE ValidFrom(_, _)
ValidFrom(bs, i) ==
    IF i > Len(bs) THEN TRUE
    ELSE LET w == Utf8Width(bs, i) IN w > 0 /\ ValidFrom(bs, i + w)

\* String::from_utf8(bytes).is_ok(); the String holds the same bytes.
IsUtf8(bs) == ValidFrom(bs, 1)

\* U+FFFD REPLACEMENT CHARACTER, encoded.
Replacement == <<239, 191, 189>>

RECURSIVE LossyFrom(_, _)
LossyFrom(bs, i) ==
    IF i > Len(bs) THEN <<>>
    ELSE LET w == Utf8Width(bs, i)
         IN  IF w > 0 THEN SubSeq(bs, i, i + w - 1) \o LossyFrom(bs, i + w)
             ELSE Replacement \o LossyFrom(bs, i + InvalidWidth(bs, i))

\* String::from_utf8_lossy(bytes).into_owned()
from_utf8_lossy(bs) == LossyFrom(bs, 1)

-----------------------------------------------------------------------------
(* Paths and nodes.  A path is the sequence of its components; the root    *)
(* always exists.  The library can create and remove files and remove      *)
(* directories, but cannot create a directory or a symbolic link: those    *)
(* exist from the start or not at all.                                     *)

D  == <<"d">>
F  == <<"d", "f">>
S  == <<"d", "s">>
G  == <<"d", "s", "g">>
L  == <<"d", "l">>
M  == <<"m">>
MF == <<"m", "f">>
T  == <<"t">>

Paths == {D, F, S, G, L, M, MF, T}

Parent(p) == SubSeq(p, 1, Len(p) - 1)
IsUnder(d, p) == Len(p) >= Len(d) /\ SubSeq(p, 1, Len(d)) = d

NoNode == [kind |-> "none", data |-> <<>>, target |-> <<>>]
DirNode == [kind |-> "dir", data |-> <<>>, target |-> <<>>]
FileNode(bytes) == [kind |-> "file", data |-> bytes, target |-> <<>>]
LinkNode(to) == [kind |-> "symlink", data |-> <<>>, target |-> to]

\* The node a path names once a final symbolic link is followed (links of
\* the model point at paths that are not links).
Resolve(f, p) == IF f[p].kind = "symlink" THEN f[p].target ELSE p

\* A walk that finds every parent in place.
PathErrNone(f, p) == ""

\* The error of walking to the parent of p: "" if the parent is a directory.
PathErr(f, p) ==
    IF Len(p) = 1 THEN ""
    ELSE LET k == f[Resolve(f, Parent(p))].kind
         IN  IF k = "dir" THEN ""
             ELSE IF k = "none" THEN "ENOENT"
             ELSE "ENOTDIR"

\* std's mapping of an OS error to io::ErrorKind.  Before Rust 1.55 every
\* error without a kind of its own was reported as ErrorKind::Other.
ErrorKind(errno) ==
    IF errno = "ENOENT" THEN "NotFound"
    ELSE IF errno = "EACCES" THEN "PermissionDenied"
    ELSE IF build.legacy THEN "Other"
    ELSE IF errno = "EISDIR" THEN "IsADirectory"
    ELSE IF errno = "ENOTDIR" THEN "NotADirectory"
    ELSE IF errno = "ENOSPC" THEN "StorageFull"
    ELSE IF errno = "ENOTEMPTY" THEN "DirectoryNotEmpty"
    ELSE "Uncategorized"

-----------------------------------------------------------------------------
(* Outcomes of calls. *)

Ret(op, path, ok, kind, cause, val) ==
    [op |-> op, path |-> path, ok |-> ok, kind |-> kind, cause |-> cause, val |-> val]

Ok(op, path, val) == Ret(op, path, TRUE, "", "", val)
\* try!(..) / Err(e) => Err(e): the OS error reaches the caller unchanged.
IoErr(op, path, errno) == Ret(op, path, FALSE, ErrorKind(errno), "io", <<>>)

-----------------------------------------------------------------------------
(* OS handles.  A std::fs::File (or ReadDir) closes its handle when it is   *)
(* dropped, which Rust does when its owner goes out of scope.              *)

Acquire(n) == n + 1
\* A handle that is never closed.
ReleaseNever(n) == n
Release(n) == n - 1
\* A handle opened and dropped inside one call.
Scoped(n) == Release(Acquire(n))

-----------------------------------------------------------------------------
(* std::fs::OpenOptions and the File it opens. *)

LINE_SEP == IF build.windows THEN <<CR, LF>> ELSE <<LF>>

\* An open for writing that keeps what the file holds.
WriteOptionsKeep ==
    [read |-> FALSE, write |-> TRUE, create |-> TRUE, truncate |-> FALSE, append |-> FALSE]
WriteOptions ==
    [read |-> FALSE, write |-> TRUE, create |-> TRUE, truncate |-> TRUE, append |-> FALSE]
\* An open for writing that starts at offset 0 instead of appending.
AppendOptionsAtStart ==
    [read |-> FALSE, write |-> TRUE, create |-> TRUE, truncate |-> FALSE, append |-> FALSE]
AppendOptions ==
    [read |-> FALSE, write |-> TRUE, create |-> TRUE, truncate |-> FALSE, append |-> TRUE]
ReadOptions ==
    [read |-> TRUE, write |-> FALSE, create |-> FALSE, truncate |-> FALSE, append |-> FALSE]

Opened(f, q, o) == [errno |-> "", fs |-> f, node |-> q, off |-> 0, append |-> o.append]
NotOpened(f, e) == [errno |-> e, fs |-> f, node |-> <<>>, off |-> 0, append |-> FALSE]

\* OpenOptions::open(path): the error, or the filesystem after the open and
\* the handle (the node it is on, its offset, whether it appends).
Open(f, p, o) ==
    LET e == PathErr(f, p)
        q == Resolve(f, p)
        k == f[q].kind
    IN  IF e # "" THEN NotOpened(f, e)
        ELSE IF k = "none" THEN
            IF o.create /\ PathErr(f, q) = ""
            THEN Opened([f EXCEPT ![q] = FileNode(<<>>)], q, o)
            ELSE NotOpened(f, "ENOENT")
        ELSE IF k = "dir" THEN
            IF build.windows THEN NotOpened(f, "EACCES")
            ELSE IF o.write \/ o.append THEN NotOpened(f, "EISDIR")
            ELSE Opened(f, q, o)
        ELSE IF o.truncate THEN Opened([f EXCEPT ![q].data = <<>>], q, o)
        ELSE Opened(f, q, o)

\* Where a write through handle h lands: the end of the file in append mode.
WritePos(f, h) == IF h.append THEN Len(f[h.node].data) ELSE h.off

\* The file's bytes once `bytes` are written at offset pos.
Overwrite(data, pos, bytes) ==
    PrefixOf(data, pos) \o bytes \o DropFirst(data, pos + Len(bytes))

\* file.write_all(bytes) writing only the first n bytes: n = Len(bytes) is
\* success, a smaller n is a write that failed part-way (a full disk).
write_all(f, h, bytes, n) ==
    LET pos == WritePos(f, h)
    IN  [fs |-> [f EXCEPT ![h.node].data = Overwrite(@, pos, PrefixOf(bytes, n))],
         h |-> [h EXCEPT !.off = pos + n],
         ok |-> n = Len(bytes)]

\* The ways write_all(bytes) can end: all bytes, or fewer and an error.
WriteCuts(bytes) == 0 .. Len(bytes)

\* read_to_end on a handle: a directory's handle cannot be read.
read_to_end(f, h) ==
    IF f[h.node].kind = "dir" THEN [errno |-> "EISDIR", val |-> <<>>]
    ELSE [errno |-> "", val |-> f[h.node].data]

-----------------------------------------------------------------------------
(* The caller's line iterator and the history variables. *)

\* odd: the parity of the number of elements yielded by reads of a directory.
NoIt == [open |-> FALSE, path |-> <<>>, node |-> <<>>, pos |-> 0, ended |-> FALSE, odd |-> FALSE]
NoWrite == [valid |-> FALSE, path |-> <<>>, contents |-> <<>>, over |-> ""]
NoRun == [path |-> <<>>, existed |-> FALSE, base |-> <<>>, args |-> <<>>]
NoLines == [valid |-> FALSE, path |-> <<>>, lines |-> <<>>]

\* A caller that holds a line iterator steps it or drops it before it makes
\* a call that changes the filesystem.
Quiet == ~it.open

Fits(f, max) == \A p \in Paths \ {T} : Len(f[p].data) <= max

\* The histories follow a write or a run of appends and the read of the
\* file, and a write_lines and the reading of its lines: any other call
\* ends them.
Mutated == /\ written' = NoWrite
           /\ appended' = NoRun
           /\ written_lines' = NoLines
           /\ UNCHANGED <<build, it, yielded>>
Observed == /\ written' = NoWrite
            /\ appended' = NoRun
            /\ written_lines' = NoLines
            /\ UNCHANGED <<build, fs, it, yielded>>

-----------------------------------------------------------------------------
(* src/file.rs *)

\* The paths the reading functions are called with: a file in a directory,
\* a path whose parent does not exist, a directory, and a file left alone.
FilePaths == {F, MF, D, T}
\* The paths the writing functions are called with.
WritePaths == {F, MF}

\* What write(path, contents) finds at path: nothing, an empty file, or a
\* file whose content is longer than the new one or not.
Prior(f, path, contents) ==
    LET node == f[Resolve(f, path)]
    IN  IF node.kind = "none" THEN "absent"
        ELSE IF node.data = <<>> THEN "empty"
        ELSE IF Len(node.data) > Len(contents) THEN "longer"
        ELSE "shorter"

write(path, contents) ==
    /\ Quiet
    /\ \E o \in {Open(fs, path, WriteOptions)} :
           IF o.errno # ""
           THEN /\ fs' = o.fs
                /\ open_handles' = open_handles
                /\ last' = IoErr("write", path, o.errno)
                /\ written' = NoWrite
           ELSE \E n \in WriteCuts(contents) :
                \E w \in {write_all(o.fs, o, contents, n)} :
                    /\ Fits(w.fs, MaxLen)
                    /\ fs' = w.fs
                    /\ open_handles' = Scoped(open_handles)
                    /\ last' = IF w.ok THEN Ok("write", path, contents)
                               ELSE IoErr("write", path, "ENOSPC")
                    /\ written' =
                          IF w.ok
                          THEN [valid |-> TRUE, path |-> path, contents |-> contents,
                                over |-> Prior(fs, path, contents)]
                          ELSE NoWrite
    /\ appended' = NoRun
    /\ written_lines' = NoLines
    /\ UNCHANGED <<build, it, yielded>>

\* The bytes read(path) returns, or the error.
read_result(f, path) ==
    LET o == Open(f, path, ReadOptions)
    IN  IF o.errno # "" THEN [errno |-> o.errno, val |-> <<>>]
        ELSE read_to_end(f, o)

read(path) ==
    /\ LET r == read_result(fs, path)
       IN  /\ last' = IF r.errno # "" THEN IoErr("read", path, r.errno)
                      ELSE Ok("read", path, r.val)
           /\ open_handles' =
                 IF Open(fs, path, ReadOptions).errno # "" THEN open_handles
                 ELSE Scoped(open_handles)
    /\ written_lines' = NoLines
    /\ UNCHANGED <<build, fs, it, yielded, written, appended>>

\* The line sequences write_lines is called with: every sequence of lines
\* whose output, with a separator of sep bytes, is at most `room` bytes long
\* (one byte more where the separator is two bytes).
RECURSIVE LinesWithin(_, _)
LinesWithin(room, sep) ==
    {<<>>} \cup
    UNION {{<<l>> \o rest : rest \in LinesWithin(room - Len(l) - sep, sep)} :
             l \in {c \in Contents : Len(c) + sep <= room}}
UnixLines == LinesWithin(MaxLen, 1)
WindowsLines == LinesWithin(MaxLen + 1, 2)
LineSeqs == IF build.windows THEN WindowsLines ELSE UnixLines

\* The write_all call that fails, counted from the current one (0: none
\* does), and the bytes it wrote before failing.
NoFail == [at |-> 0, n |-> 0]
Fails(chunks) ==
    {NoFail} \cup
    UNION {{[at |-> i, n |-> n] : n \in 0 .. Len(chunks[i]) - 1} : i \in 1 .. Len(chunks)}

RECURSIVE LineChunks(_)
LineChunks(lines) ==
    IF lines = <<>> THEN <<>>
    ELSE <<Head(lines), LINE_SEP>> \o LineChunks(Tail(lines))

\* for line in lines { try!(write_all(line)); try!(write_all(LINE_SEP)); }
RECURSIVE write_lines_loop(_, _, _, _)
write_lines_loop(f, h, lines, fail) ==
    IF lines = <<>> THEN [fs |-> f, ok |-> TRUE]
    ELSE LET w1 == write_all(f, h, Head(lines),
                             IF fail.at = 1 THEN fail.n ELSE Len(Head(lines)))
         IN  IF ~w1.ok THEN [fs |-> w1.fs, ok |-> FALSE]
             ELSE LET w2 == write_all(w1.fs, w1.h, LINE_SEP,
                                      IF fail.at = 2 THEN fail.n ELSE Len(LINE_SEP))
                  IN  IF ~w2.ok THEN [fs |-> w2.fs, ok |-> FALSE]
                      ELSE write_lines_loop(w2.fs, w2.h, Tail(lines),
                                            [fail EXCEPT !.at = @ - 2])

write_lines(path, lines) ==
    /\ Quiet
    /\ \E o \in {Open(fs, path, WriteOptions)} :
           IF o.errno # ""
           THEN /\ fs' = o.fs
                /\ open_handles' = open_handles
                /\ last' = IoErr("write_lines", path, o.errno)
                /\ written_lines' = NoLines
           ELSE \E fail \in Fails(LineChunks(lines)) :
                \E w \in {write_lines_loop(o.fs, o, lines, fail)} :
                    /\ fs' = w.fs
                    /\ open_handles' = Scoped(open_handles)
                    /\ last' = IF w.ok THEN Ok("write_lines", path, lines)
                               ELSE IoErr("write_lines", path, "ENOSPC")
                    /\ written_lines' =
                          IF w.ok THEN [valid |-> TRUE, path |-> path, lines |-> lines]
                          ELSE NoLines
    /\ written' = NoWrite
    /\ appended' = NoRun
    /\ UNCHANGED <<build, it, yielded>>

\* The run of appends after one more successful append(path, contents).
Run(path, contents) ==
    IF appended.args # <<>> /\ appended.path = path
    THEN IF Len(appended.args) < MaxRun
         THEN [appended EXCEPT !.args = Append(@, contents)]
         ELSE [appended EXCEPT !.existed = TRUE,
                               !.base = @ \o Head(appended.args),
                               !.args = Append(Tail(@), contents)]
    ELSE [path |-> path,
          existed |-> fs[Resolve(fs, path)].kind = "file",
          base |-> fs[Resolve(fs, path)].data,
          args |-> <<contents>>]

append(path, contents) ==
    /\ Quiet
    /\ \E o \in {Open(fs, path, AppendOptions)} :
           IF o.errno # ""
           THEN /\ fs' = o.fs
                /\ open_handles' = open_handles
                /\ last' = IoErr("append", path, o.errno)
                /\ appended' = NoRun
           ELSE \E n \in WriteCuts(contents) :
                \E w \in {write_all(o.fs, o, contents, n)} :
                    /\ Fits(w.fs, MaxLen)
                    /\ fs' = w.fs
                    /\ open_handles' = Scoped(open_handles)
                    /\ last' = IF w.ok THEN Ok("append", path, contents)
                               ELSE IoErr("append", path, "ENOSPC")
                    /\ appended' = IF w.ok THEN Run(path, contents) ELSE NoRun
    /\ written' = NoWrite
    /\ written_lines' = NoLines
    /\ UNCHANGED <<build, it, yielded>>

append_line(path, contents) ==
    /\ Quiet
    /\ \E o \in {Open(fs, path, AppendOptions)} :
           IF o.errno # ""
           THEN /\ fs' = o.fs
                /\ open_handles' = open_handles
                /\ last' = IoErr("append_line", path, o.errno)
           ELSE \E fail \in Fails(<<contents, LINE_SEP>>) :
                LET w1 == write_all(o.fs, o, contents,
                                    IF fail.at = 1 THEN fail.n ELSE Len(contents))
                    w2 == write_all(w1.fs, w1.h, LINE_SEP,
                                    IF fail.at = 2 THEN fail.n ELSE Len(LINE_SEP))
                IN  \E w \in {IF w1.ok THEN w2 ELSE w1} :
                    /\ Fits(w.fs, MaxLen)
                    /\ fs' = w.fs
                    /\ open_handles' = Scoped(open_handles)
                    /\ last' = IF w.ok THEN Ok("append_line", path, <<>>)
                               ELSE IoErr("append_line", path, "ENOSPC")
    /\ Mutated

read_string_utf8(path) ==
    /\ LET r == read_result(fs, path)
       IN  /\ last' = IF r.errno # "" THEN IoErr("read_string_utf8", path, r.errno)
                      ELSE IF IsUtf8(r.val) THEN Ok("read_string_utf8", path, r.val)
                      ELSE Ret("read_string_utf8", path, FALSE, "Other", "decode", <<>>)
           /\ open_handles' =
                 IF Open(fs, path, ReadOptions).errno # "" THEN open_handles
                 ELSE Scoped(open_handles)
    /\ Observed

read_string_utf8_lossy(path) ==
    /\ LET r == read_result(fs, path)
       IN  /\ last' = IF r.errno # "" THEN IoErr("read_string_utf8_lossy", path, r.errno)
                      ELSE Ok("read_string_utf8_lossy", path, from_utf8_lossy(r.val))
           /\ open_handles' =
                 IF Open(fs, path, ReadOptions).errno # "" THEN open_handles
                 ELSE Scoped(open_handles)
    /\ Observed

\* The caller holds at most one iterator at a time.
read_lines(path) ==
    /\ ~it.open
    /\ LET o == Open(fs, path, ReadOptions)
       IN  IF o.errno # ""
           THEN /\ it' = it
                /\ open_handles' = open_handles
                /\ last' = IoErr("read_lines", path, o.errno)
           ELSE /\ it' = [open |-> TRUE, path |-> path, node |-> o.node, pos |-> 0,
                          ended |-> FALSE, odd |-> FALSE]
                /\ open_handles' = Acquire(open_handles)
                /\ last' = Ok("read_lines", path, <<>>)
    /\ yielded' = <<>>
    /\ written' = NoWrite
    /\ appended' = NoRun
    /\ UNCHANGED <<build, fs, written_lines>>

\* A read that takes all that is left of the file (read_to_end).
RestOfFile(data, pos) == DropFirst(data, pos)

\* The bytes read_until(b'\n') takes from data at offset pos: up to and
\* including the next "\n", or all that is left.
RECURSIVE UntilNewline(_, _)
UntilNewline(data, pos) ==
    IF pos >= Len(data) THEN <<>>
    ELSE IF data[pos + 1] = LF THEN <<LF>>
    ELSE <<data[pos + 1]>> \o UntilNewline(data, pos + 1)

\* An iterator that hands out the line as read, terminator included.
KeepTerminator(line) == line

\* Lines::next drops a final "\n" and then a final "\r".
StripTerminator(line) ==
    IF line # <<>> /\ line[Len(line)] = LF
    THEN LET cut == PrefixOf(line, Len(line) - 1)
         IN  IF cut # <<>> /\ cut[Len(cut)] = CR THEN PrefixOf(cut, Len(cut) - 1) ELSE cut
    ELSE line

Element(ok, cause, val, from, to) ==
    [ok |-> ok, cause |-> cause, val |-> val, from |-> from, to |-> to]

\* Lines::next(): one read_line on the buffered file.
next_line ==
    /\ it.open
    /\ IF fs[it.node].kind = "dir"
       THEN /\ last' = IoErr("next", it.path, "EISDIR")
            /\ yielded' = yielded
            /\ it' = [it EXCEPT !.odd = ~@]
       ELSE LET chunk == UntilNewline(fs[it.node].data, it.pos)
                to == it.pos + Len(chunk)
            IN  IF chunk = <<>>
                THEN /\ last' = Ok("next_none", it.path, <<>>)
                     /\ yielded' = yielded
                     /\ it' = [it EXCEPT !.ended = TRUE]
                ELSE IF ~IsUtf8(chunk)
                THEN /\ last' = Ret("next", it.path, FALSE, "InvalidData", "decode", <<>>)
                     /\ yielded' = Append(yielded, Element(FALSE, "decode", <<>>, it.pos, to))
                     /\ it' = [it EXCEPT !.pos = to]
                ELSE /\ last' = Ok("next", it.path, StripTerminator(chunk))
                     /\ yielded' = Append(yielded,
                                      Element(TRUE, "", StripTerminator(chunk), it.pos, to))
                     /\ it' = [it EXCEPT !.pos = to]
    /\ UNCHANGED <<build, fs, open_handles, written, appended, written_lines>>

\* Lines::next() when a read of the file fails: the bytes of the line taken
\* before the failure are dropped with the element.
next_line_fault ==
    /\ it.open
    /\ fs[it.node].kind = "file"
    /\ LET chunk == UntilNewline(fs[it.node].data, it.pos)
       IN  \E n \in 0 .. Len(chunk) :
             /\ n < Len(chunk) \/ chunk = <<>>
             /\ it' = [it EXCEPT !.pos = @ + n]
             /\ yielded' = Append(yielded, Element(FALSE, "io", <<>>, it.pos, it.pos + n))
             /\ Cardinality({i \in 1 .. Len(yielded) : yielded[i].cause = "io"}) < MaxFaults
    /\ last' = IoErr("next", it.path, "EIO")
    /\ UNCHANGED <<build, fs, open_handles, written, appended, written_lines>>

\* The caller drops the iterator, and with it the File inside.
drop_lines ==
    /\ it.open
    /\ it' = NoIt
    /\ open_handles' = Release(open_handles)
    /\ yielded' = <<>>
    /\ last' = Ok("drop", <<>>, <<>>)
    /\ written_lines' = NoLines
    /\ UNCHANGED <<build, fs, written, appended>>

\* Path::is_file / Path::is_dir / Path::exists follow symbolic links and
\* turn every error into false.
is_file(f, p) == PathErr(f, p) = "" /\ f[Resolve(f, p)].kind = "file"
is_dir(f, p) == PathErr(f, p) = "" /\ f[Resolve(f, p)].kind = "dir"
path_exists(f, p) == PathErr(f, p) = "" /\ f[Resolve(f, p)].kind # "none"

file_exists(f, path) == is_file(f, path) /\ path_exists(f, path)

exists(path) ==
    /\ last' = Ret("file.exists", path, file_exists(fs, path), "", "", <<>>)
    /\ open_handles' = open_handles
    /\ Observed

\* std::fs::copy: the source must be a regular file; the target is opened
\* as write opens it and receives the source's bytes.
copy(from, to) ==
    /\ Quiet
    /\ LET src == Open(fs, from, ReadOptions)
           dst == Open(fs, to, WriteOptions)
       IN  IF build.legacy /\ ~is_file(fs, from)
           THEN fs' = fs /\ last' = Ret("copy", from, FALSE, "InvalidInput", "io", <<>>)
           ELSE IF src.errno # ""
           THEN fs' = fs /\ last' = IoErr("copy", from, src.errno)
           ELSE IF ~is_file(fs, from)
           THEN fs' = fs /\ last' = Ret("copy", from, FALSE, "InvalidInput", "io", <<>>)
           ELSE IF dst.errno # ""
           THEN fs' = fs /\ last' = IoErr("copy", from, dst.errno)
           ELSE /\ fs' = write_all(dst.fs, dst, fs[src.node].data, Len(fs[src.node].data)).fs
                /\ last' = Ok("copy", from, <<>>)
    /\ open_handles' = open_handles
    /\ Mutated

\* std::fs::remove_file: unlink, which does not follow a final link.
remove(path) ==
    /\ Quiet
    /\ LET e == PathErr(fs, path)
           k == fs[path].kind
       IN  IF e # "" THEN fs' = fs /\ last' = IoErr("file.remove", path, e)
           ELSE IF k = "none" THEN fs' = fs /\ last' = IoErr("file.remove", path, "ENOENT")
           ELSE IF k = "dir"
           THEN /\ fs' = fs
                /\ last' = IoErr("file.remove", path,
                                 IF build.windows THEN "EACCES" ELSE "EISDIR")
           ELSE /\ fs' = [fs EXCEPT ![path] = NoNode]
                /\ last' = Ok("file.remove", path, <<>>)
    /\ open_handles' = open_handles
    /\ Mutated

-----------------------------------------------------------------------------
(* src/directory.rs *)

dir_exists(f, path) == is_dir(f, path) /\ path_exists(f, path)

directory_exists(path) ==
    /\ last' = Ret("directory.exists", path, dir_exists(fs, path), "", "", <<>>)
    /\ open_handles' = open_handles
    /\ Observed

\* std::fs::read_dir(path): the error, or the entries of the directory.
read_dir(f, path) ==
    LET e == PathErr(f, path)
        k == f[Resolve(f, path)].kind
    IN  IF e # "" THEN [errno |-> e, entries |-> {}]
        ELSE IF k = "none" THEN [errno |-> "ENOENT", entries |-> {}]
        ELSE IF k # "dir" THEN [errno |-> "ENOTDIR", entries |-> {}]
        ELSE [errno |-> "",
              entries |-> {c \in Paths : Parent(c) = Resolve(f, path) /\ f[c].kind # "none"}]

\* The orders a directory's entries can be enumerated in.
Orders(entries) ==
    {o \in [1 .. Cardinality(entries) -> entries] :
        \A i, j \in 1 .. Cardinality(entries) : o[i] = o[j] => i = j}

\* The type of what the entry leads to (fs::metadata), a link followed.
file_type_followed(f, entry) == f[Resolve(f, entry)].kind

\* entry.file_type(): the type of the entry itself; a link is not followed.
file_type(f, entry) == f[entry].kind

\* for entry in read_dir(path) { if <wanted> { out.push(entry.path()) } }
RECURSIVE collect(_, _, _)
collect(f, entries, wanted) ==
    IF Len(entries) = 0 THEN <<>>
    ELSE LET entry == entries[1]
             rest == collect(f, Tail(entries), wanted)
         IN  IF wanted = "any" \/ file_type(f, entry) = wanted
             THEN <<entry>> \o rest
             ELSE rest

\* One of the three listings: `wanted` is "any", "file" or "dir".
list(op, path, wanted) ==
    /\ \E r \in {read_dir(fs, path)} :
         IF r.errno # ""
         THEN /\ last' = IoErr(op, path, r.errno)
              /\ open_handles' = open_handles
         ELSE \E order \in Orders(r.entries) :
              /\ last' = Ok(op, path, collect(fs, order, wanted))
              /\ open_handles' = Scoped(open_handles)
    /\ Observed

children(path) == list("children", path, "any")
files(path) == list("files", path, "file")
sub_directories(path) == list("sub_directories", path, "dir")

\* The filesystem without the nodes in `gone`.
Without(f, gone) == [q \in Paths |-> IF q \in gone THEN NoNode ELSE f[q]]

\* The removal of d alone (fs::remove_dir without its emptiness check).
remove_dir_only(f, d) == Without(f, {d})

\* std::fs::remove_dir_all(d) run to its end: d and all beneath it are gone.
remove_dir_all(f, d) == Without(f, {q \in Paths : IsUnder(d, q)})

\* What a remove_dir_all(d) that fails part-way may have removed: entries
\* beneath d, a directory among them only with all it held.
Partial(f, d) ==
    {gone \in SUBSET {q \in Paths : IsUnder(d, q) /\ q # d /\ f[q].kind # "none"} :
        \A q \in gone : \A r \in Paths :
            (IsUnder(q, r) /\ f[r].kind # "none") => r \in gone}

\* The number of nodes in the tree at d.
Held(f, d) == Cardinality({q \in Paths : IsUnder(d, q) /\ f[q].kind # "none"})

\* directory::remove is called on directories, files and missing paths, not
\* on a symbolic link (what std did with one changed between releases).
directory_remove(path) ==
    /\ Quiet
    /\ fs[path].kind # "symlink"
    /\ LET e == PathErr(fs, path)
           k == fs[path].kind
       IN  IF e # "" THEN fs' = fs /\ last' = IoErr("directory.remove", path, e)
           ELSE IF k = "none"
           THEN fs' = fs /\ last' = IoErr("directory.remove", path, "ENOENT")
           ELSE IF k = "file"
           THEN fs' = fs /\ last' = IoErr("directory.remove", path, "ENOTDIR")
           ELSE \/ /\ fs' = remove_dir_all(fs, path)
                   /\ last' = Ok("directory.remove", path, <<Held(fs, path)>>)
                \/ \E gone \in Partial(fs, path) :
                   /\ fs' = Without(fs, gone)
                   /\ last' = IoErr("directory.remove", path, "EACCES")
    /\ open_handles' = open_handles
    /\ Mutated

-----------------------------------------------------------------------------
(* Initial states and specifications. *)

Builds == [windows : BOOLEAN, legacy : BOOLEAN]

\* A directory d that may hold a file d/f with the given bytes, and a file
\* t beside it.
Files(present, bytes) ==
    [p \in Paths |->
        IF p = D THEN DirNode
        ELSE IF p = F /\ present THEN FileNode(bytes)
        ELSE IF p = T THEN FileNode(<<97, LF>>)
        ELSE NoNode]

Start ==
    /\ build \in Builds
    /\ open_handles = 0
    /\ it = NoIt
    /\ last = Ok("start", <<>>, <<>>)
    /\ written = NoWrite
    /\ appended = NoRun
    /\ written_lines = NoLines
    /\ yielded = <<>>

Init ==
    /\ Start
    /\ \E c \in Blobs, present \in BOOLEAN : fs = Files(present, c)

\* The calls that read or write a whole file at once.
Next ==
    \/ \E p \in WritePaths, c \in Blobs : write(p, c)
    \/ \E p \in WritePaths, c \in Blobs : append(p, c)
    \/ \E p \in FilePaths : read(p)
    \/ \E p \in FilePaths : read_string_utf8(p)
    \/ \E p \in FilePaths : read_string_utf8_lossy(p)
    \/ \E p \in FilePaths : exists(p)
    \/ \E p \in {T, MF, D}, q \in {F, MF, D} : copy(p, q)
    \/ \E p \in {F, MF, D} : remove(p)

Spec == Init /\ [][Next]_vars

\* The std generation changes only the kind an OS error is reported with.
InitLines ==
    /\ Start
    /\ ~build.legacy
    /\ \E c \in Texts, present \in BOOLEAN : fs = Files(present, c)

\* The calls that write and read a file line by line.
NextLines ==
    \/ \E ls \in LineSeqs : write_lines(F, ls)
    \/ \E ls \in {<<>>, <<<<97>>>>} : write_lines(MF, ls)
    \/ \E c \in Contents : append_line(F, c)
    \/ \E c \in {<<>>, <<97>>} : append_line(MF, c)
    \/ \E p \in FilePaths : read_lines(p)
    \/ next_line
    \/ next_line_fault
    \/ drop_lines

SpecLines == InitLines /\ [][NextLines]_vars

\* Lines::next returns whenever it is called: a caller that keeps stepping
\* the iterator gets every element the iterator has.
FairLines == SpecLines /\ WF_vars(next_line)

\* The trees of d: a file d/f, a subdirectory d/s (or a file of that name)
\* with a file d/s/g, and a symbolic link d/l to a file or to a directory.
Trees ==
    {[p \in Paths |->
        IF p = D THEN DirNode
        ELSE IF p = T THEN FileNode(<<97, LF>>)
        ELSE IF p = F THEN f
        ELSE IF p = S THEN s
        ELSE IF p = G /\ s.kind = "dir" THEN g
        ELSE IF p = L THEN l
        ELSE NoNode] :
     f \in {NoNode, FileNode(<<97>>)},
     s \in {NoNode, DirNode, FileNode(<<>>)},
     g \in {NoNode, FileNode(<<LF>>)},
     l \in {NoNode, LinkNode(F), LinkNode(S), LinkNode(T)}}

InitDirs ==
    /\ Start
    /\ ~build.legacy
    /\ fs \in Trees

DirPaths == {D, S, F, MF}

\* The calls that list and remove directories, and the removal of a file.
NextDirs ==
    \/ \E p \in DirPaths \cup {L} : directory_exists(p)
    \/ \E p \in DirPaths \cup {L, G} : exists(p)
    \/ \E p \in DirPaths : children(p)
    \/ \E p \in DirPaths : files(p)
    \/ \E p \in DirPaths : sub_directories(p)
    \/ \E p \in DirPaths : directory_remove(p)
    \/ \E p \in {F, G, L} : remove(p)

SpecDirs == InitDirs /\ [][NextDirs]_vars

\* Every call, on a few inputs.
Samples == {<<>>, <<97>>, <<255, LF>>}

InitCalls ==
    /\ Start
    /\ ~build.legacy
    /\ \E present \in BOOLEAN : fs = Files(present, <<97>>)

NextCalls ==
    \/ \E p \in WritePaths, c \in Samples : write(p, c)
    \/ \E p \in WritePaths : \E ls \in {<<>>, <<<<97>>>>, <<<<>>, <<255>>>>} : write_lines(p, ls)
    \/ \E p \in WritePaths, c \in Samples : append(p, c)
    \/ \E p \in WritePaths, c \in Samples : append_line(p, c)
    \/ \E p \in FilePaths : read(p)
    \/ \E p \in FilePaths : read_string_utf8(p)
    \/ \E p \in FilePaths : read_string_utf8_lossy(p)
    \/ \E p \in FilePaths : read_lines(p)
    \/ next_line
    \/ next_line_fault
    \/ drop_lines
    \/ \E p \in FilePaths : exists(p)
    \/ \E p \in {T, MF}, q \in WritePaths : copy(p, q)
    \/ \E p \in WritePaths : remove(p)
    \/ \E p \in {D, F, MF} : directory_exists(p)
    \/ \E p \in {D, F, MF} : children(p)
    \/ \E p \in {D, F, MF} : files(p)
    \/ \E p \in {D, F, MF} : sub_directories(p)
    \/ \E p \in {D, F, MF} : directory_remove(p)

SpecCalls == InitCalls /\ [][NextCalls]_vars

-----------------------------------------------------------------------------
(* Properties. *)

Range(s) == {s[i] : i \in 1 .. Len(s)}

RECURSIVE Flat(_)
Flat(ss) == IF ss = <<>> THEN <<>> ELSE Head(ss) \o Flat(Tail(ss))

\* C1: a read(p) that follows a successful write(p, b) succeeds and returns
\* exactly b, whatever p held before the write (nothing, an empty file, a
\* shorter or a longer content).
C1_WriteReadRoundTrip ==
    (last.op = "read" /\ written.valid /\ last.path = written.path)
        => (last.ok /\ last.val = written.contents)

\* A read has returned the one byte written over a file that held two.
C1_Witness ==
    /\ last.op = "read" /\ last.ok
    /\ written.valid /\ last.path = written.path
    /\ written.over = "longer" /\ Len(written.contents) = 1
    /\ last.val = written.contents

ReadBack ==
    /\ it.open /\ it.ended
    /\ written_lines.valid /\ written_lines.path = it.path
    /\ \A i \in 1 .. Len(yielded) : yielded[i].cause # "io"

Values == [i \in 1 .. Len(yielded) |-> yielded[i].val]
AllOk == \A i \in 1 .. Len(yielded) : yielded[i].ok

TextLines(lines) ==
    \A i \in 1 .. Len(lines) : IsUtf8(lines[i]) /\ LF \notin Range(lines[i])
NoFinalCR(lines) ==
    \A i \in 1 .. Len(lines) : lines[i] = <<>> \/ lines[i][Len(lines[i])] # CR

StrictFailure(r) == r.op = "read_string_utf8" /\ ~r.ok

\* C4 as stated: a failure of read_string_utf8 to decode and a failure of
\* its IO never carry the same error kind.
C4_KindsDistinct ==
    [][(StrictFailure(last) /\ StrictFailure(last') /\ last.cause # last'.cause)
          => last.kind # last'.kind]_vars

\* C5: write(p, b) on a path whose parent directory does not exist returns
\* a NotFound error and leaves the whole filesystem as it was.
C5_MissingParent ==
    [][(last'.op = "write" /\ fs[Parent(last'.path)].kind = "none")
          => (~last'.ok /\ last'.kind = "NotFound" /\ last'.cause = "io" /\ fs' = fs)]_vars

\* write has failed on m/f, and neither m nor m/f exists.
C5_Witness ==
    /\ last.op = "write" /\ last.path = MF
    /\ ~last.ok /\ last.kind = "NotFound"
    /\ fs[M].kind = "none" /\ fs[MF].kind = "none"

\* The entries of directory d, and those of one type.
Entries(d) == {c \in Paths : Parent(c) = d /\ fs[c].kind # "none"}
EntriesOf(d, kind) == {c \in Entries(d) : fs[c].kind = kind}

\* C6: children(d) returns d's entries, each once; files(d) those of them
\* that are regular files themselves and sub_directories(d) those that are
\* directories themselves, so that a symbolic link is in neither.
C6_Listings ==
    /\ (last.op = "children" /\ last.ok)
          => (Range(last.val) = Entries(last.path)
              /\ Len(last.val) = Cardinality(Entries(last.path)))
    /\ (last.op = "files" /\ last.ok)
          => (Range(last.val) = EntriesOf(last.path, "file")
              /\ Len(last.val) = Cardinality(EntriesOf(last.path, "file")))
    /\ (last.op = "sub_directories" /\ last.ok)
          => (Range(last.val) = EntriesOf(last.path, "dir")
              /\ Len(last.val) = Cardinality(EntriesOf(last.path, "dir")))

\* files(d) has returned d/f alone from a directory that also holds a
\* subdirectory and a symbolic link to a file.
C6_Witness ==
    /\ last.op = "files" /\ last.ok /\ last.path = D
    /\ last.val = <<F>>
    /\ fs[S].kind = "dir"
    /\ fs[L].kind = "symlink" /\ fs[fs[L].target].kind = "file"

\* C7: when directory.remove(d) returns success, d and everything beneath
\* it is gone (neither file.exists nor directory.exists holds of it) and
\* every path outside d is as it was.
C7_RemoveWholeTree ==
    [][(last'.op = "directory.remove" /\ last'.ok)
          => \A q \in Paths :
                IF IsUnder(last'.path, q)
                THEN /\ fs'[q] = NoNode
                     /\ ~dir_exists(fs', q)
                     /\ ~file_exists(fs', q)
                ELSE fs'[q] = fs[q]]_vars

\* directory.remove(d) has succeeded on a tree of at least four nodes: d, a
\* file, a subdirectory and a file in the subdirectory.
C7_Witness ==
    /\ last.op = "directory.remove" /\ last.ok /\ last.path = D
    /\ last.val[1] >= 4
    /\ \A q \in {D, F, S, G, L} : fs[q].kind = "none"

\* The lines of data: the spans [from, to) that start at the start of the
\* file or after a "\n" and end with the next "\n" or the end of the file.
LineSpans(data) ==
    {sp \in [from : 0 .. Len(data), to : 0 .. Len(data)] :
        /\ sp.from < sp.to
        /\ sp.from = 0 \/ data[sp.from] = LF
        /\ sp.to = Len(data) \/ data[sp.to] = LF
        /\ \A i \in sp.from + 1 .. sp.to - 1 : data[i] # LF}

\* A line is readable if no failed read took bytes of it.
Readable(sp) ==
    \A k \in 1 .. Len(yielded) :
        yielded[k].cause = "io" => (yielded[k].to <= sp.from \/ yielded[k].from >= sp.to)

\* C8: a failed element does not end the sequence of read_lines: the
\* sequence ends only at the end of the file, its elements are in file
\* order, and every readable line of valid UTF-8 that lies after a failed
\* element is yielded as a success.
C8_FailuresDoNotEnd ==
    (it.open /\ it.ended) =>
        LET data == fs[it.node].data
        IN  /\ it.pos = Len(data)
            /\ \A i, j \in 1 .. Len(yielded) : i < j => yielded[i].to <= yielded[j].from
            /\ \A i \in 1 .. Len(yielded) :
                 ~yielded[i].ok =>
                    \A sp \in LineSpans(data) :
                       (sp.from >= yielded[i].to
                        /\ Readable(sp)
                        /\ IsUtf8(SubSeq(data, sp.from + 1, sp.to)))
                       => \E j \in i + 1 .. Len(yielded) :
                             /\ yielded[j].ok
                             /\ yielded[j].from = sp.from /\ yielded[j].to = sp.to
                             /\ yielded[j].val = StripTerminator(SubSeq(data, sp.from + 1, sp.to))

\* The sequence has ended after a line that failed to decode and a later
\* line that was yielded.
C8_Witness ==
    /\ it.open /\ it.ended
    /\ \E i, j \in 1 .. Len(yielded) :
          i < j /\ ~yielded[i].ok /\ yielded[i].cause = "decode" /\ yielded[j].ok

\* C9 as stated: a sequence that read_lines opened and the caller keeps
\* stepping reaches its end after finitely many elements.
C9_ReachesEnd == it.open ~> (it.ended \/ ~it.open)

\* C10 as stated: after every returned call no handle that a call opened is
\* still open.
C10_NoOpenHandle == open_handles = 0

\* C10: after every returned call the only handle still open is the one
\* inside the line iterator a successful read_lines returned, until the
\* caller drops the iterator; every other call, failed part-way or not, has
\* closed the handle it opened.
C10_HandlesOwned == open_handles = IF it.open THEN 1 ELSE 0

\* append_line has failed after it opened the file, and no handle is open.
C10_Witness ==
    /\ last.op = "append_line" /\ ~last.ok /\ last.kind = "StorageFull"
    /\ ~it.open /\ open_handles = 0

=============================================================================
